---- MODULE Spec2Model ----
(***************************************************************************)
(* E_Library REST backend (src/db.js: MySQL variant, src/server.js: SQLite *)
(* variant, src/middlewares/role.js).  Each HTTP request is a small state  *)
(* machine: it walks the middleware chain its route was registered with,   *)
(* runs the route handler, and the handler's store / bcrypt callbacks send *)
(* the response.  The relational store, bcrypt and jsonwebtoken are        *)
(* modelled by what the handlers observe of them.                          *)
(***************************************************************************)
EXTENDS Integers, Sequences, FiniteSets, TLC

VARIABLES
    users,      \* table user: rows [Id, Username, Password, Role]
    Book,       \* table Book: rows [Id, Title, Type, Price, PubId, AuthorId]
    Publisher,  \* table Publisher: rows [Id, PName, City]
    Author,     \* table Author: rows [Id, FName, LName, Country, City, Address]
    clock,      \* wall clock, [base, jumps, fine] in ticks (see Now)
    held,       \* the token the client last received from POST /signin
    req         \* the requests in flight, one record per connection

vars == <<users, Book, Publisher, Author, clock, held, req>>

catalog == <<Book, Publisher, Author>>

(***************************************************************************)
(* Bounds of the model.                                                    *)
(***************************************************************************)
MaxId == 2        \* Book and user rows (auto-increment ids 1..MaxId)
MaxFine == 3      \* fine clock ticks taken around each coarse instant
MaxJumps == 1     \* coarse clock jumps
TicksPerSec == 2  \* clock resolution: ticks per second

Conn == {"c1", "c2"}    \* concurrent connections
Serial == {"c1"}        \* one connection, requests one after the other
BookIds == 1..MaxId
UserIds == 1..MaxId
PublisherIds == {1}
AuthorIds == {1}

(***************************************************************************)
(* Program constants.                                                      *)
(***************************************************************************)
ExpiresIn == 3600                 \* jwt.sign(..., { expiresIn: "1h" }), seconds
SaltRounds == 10                  \* bcrypt.hash(password, 10)
SECRET_KEY == "JWT_SECRET"        \* process.env.JWT_SECRET

(***************************************************************************)
(* JavaScript values carried by request bodies and query strings.          *)
(***************************************************************************)
Undefined == [t |-> "undefined"]
Str(s) == [t |-> "string", v |-> s]
Num(n) == [t |-> "number", n |-> n]
Chars(s) == [t |-> "string", chars |-> s]   \* a string given by its characters
Arr(s) == [t |-> "array", items |-> s]

IsString(v) == v.t = "string"

\* !v
Falsy(v) == v = Undefined \/ v = Str("") \/ v = Chars(<<>>) \/ v = Num(0)

\* v || d
OrElse(v, d) == IF Falsy(v) THEN d ELSE v

\* const { f } = req.body
Field(body, f) == IF f \in DOMAIN body THEN body[f] ELSE Undefined

(***************************************************************************)
(* Clock.  Date.now() counted in ticks; jsonwebtoken works in whole        *)
(* seconds, Math.floor(Date.now() / 1000).                                 *)
(***************************************************************************)
Now == clock.base + clock.fine

Secs(t) == t \div TicksPerSec

(***************************************************************************)
(* bcrypt.                                                                 *)
(***************************************************************************)
\* bcrypt.hash(data, 10): rejects unless data is a string
BcryptHashFails(data) == ~IsString(data)

BcryptHash(data) == [alg |-> "bcrypt", rounds |-> SaltRounds, of |-> data.v]

\* bcrypt.compare(data, hash, cb): cb(err) unless both are strings
BcryptCompareFails(data, hash) == ~IsString(data) \/ hash.alg # "bcrypt"

BcryptCompare(data, hash) == hash.of = data.v

(***************************************************************************)
(* jsonwebtoken.  A header part is either a JWT or some other text.        *)
(***************************************************************************)
NoUser == [kind |-> "none"]
NoToken == [tok |-> NoUser, at |-> 0]

Text(s) == [kind |-> "text", text |-> s]

\* jwt.sign(payload, key, { expiresIn: "1h" }) at time t
JwtSign(payload, key, t) ==
    [kind |-> "jwt", userId |-> payload.userId, username |-> payload.username,
     role |-> payload.role, iat |-> Secs(t), exp |-> Secs(t) + ExpiresIn,
     key |-> key]

\* faulty variant: the expiry test off by one second (> for >=)
JwtVerifyFails_Late(part, key, t) ==
    \/ part = Undefined
    \/ part.kind # "jwt"
    \/ part.key # key
    \/ Secs(t) > part.exp

\* jwt.verify(part, key, cb) calls cb(err) at time t
JwtVerifyFails(part, key, t) ==
    \/ part = Undefined
    \/ part.kind # "jwt"
    \/ part.key # key
    \/ Secs(t) >= part.exp

\* the decoded payload handed to cb(null, decoded)
JwtDecoded(part) ==
    [kind |-> "identity", userId |-> part.userId, username |-> part.username,
     role |-> part.role, iat |-> part.iat, exp |-> part.exp]

(***************************************************************************)
(* The Authorization header: absent, or a string given by its              *)
(* space-delimited parts (token.split(" ")); the empty string is <<"">>.   *)
(***************************************************************************)
NoHeader == [present |-> FALSE, parts |-> <<>>]
Header(parts) == [present |-> TRUE, parts |-> parts]
EmptyHeader == Header(<<Text("")>>)
Bearer(tok) == Header(<<Text("Bearer"), tok>>)

\* faulty variant: token.split(" ")[0]
SecondPart_First(hdr) == hdr.parts[1]

\* token.split(" ")[1]
SecondPart(hdr) == IF Len(hdr.parts) >= 2 THEN hdr.parts[2] ELSE Undefined

(***************************************************************************)
(* Requests.                                                               *)
(***************************************************************************)
NoBody == [none |-> Undefined]
NoQuery == Undefined
NoOut == [none |-> Undefined]

Idle ==
    [pc |-> "idle", route |-> "", hdr |-> NoHeader, body |-> NoBody, id |-> 0,
     q |-> NoQuery, idx |-> 0, passed |-> <<>>, user |-> NoUser, stmts |-> <<>>,
     status |-> 0, msg |-> "", out |-> NoOut, sent |-> 0, failed |-> "none",
     row |-> NoUser]

\* faulty variant: POST /author registered without requireAdmin
Chain_AuthorUngated(route) ==
    CASE route \in {"POST /book", "DELETE /book/:id", "POST /publisher",
                    "DELETE /publisher/:id"} ->
             <<"verifyToken", "requireAdmin", "handler">>
      [] route \in {"GET /dashboard", "POST /author"} -> <<"verifyToken", "handler">>
      [] OTHER -> <<"handler">>

\* app.METHOD(path, ...chain): the callbacks each route is registered with
Chain(route) ==
    CASE route = "POST /book" -> <<"verifyToken", "requireAdmin", "handler">>
      [] route = "DELETE /book/:id" -> <<"verifyToken", "requireAdmin", "handler">>
      [] route = "POST /publisher" -> <<"verifyToken", "requireAdmin", "handler">>
      [] route = "DELETE /publisher/:id" -> <<"verifyToken", "requireAdmin", "handler">>
      [] route = "POST /author" -> <<"verifyToken", "requireAdmin", "handler">>
      [] route = "GET /dashboard" -> <<"verifyToken", "handler">>
      [] OTHER -> <<"handler">>

AdminRoutes ==
    {"POST /book", "DELETE /book/:id", "POST /publisher", "DELETE /publisher/:id",
     "POST /author"}

\* the callback of the chain the request is waiting to run
Stage(r) == IF req[r].pc = "chain" THEN Chain(req[r].route)[req[r].idx] ELSE "none"

\* res.status(s).json({ error | message: m, ...out }): the request is answered
Respond(rq, s, m, out) ==
    [rq EXCEPT !.pc = "done", !.status = s, !.msg = m, !.out = out,
               !.sent = rq.sent + 1]

\* next()
Advance(rq, name) ==
    [rq EXCEPT !.idx = rq.idx + 1, !.passed = Append(rq.passed, name)]

\* connection.query(sql, params, cb) / db.run / db.get / db.all
Issue(rq, stmt) == [rq EXCEPT !.pc = "query", !.stmts = Append(rq.stmts, stmt)]

Pending(r) == req[r].stmts[Len(req[r].stmts)]

(***************************************************************************)
(* A client sends a request on an idle connection.                         *)
(***************************************************************************)
Send(r, route, hdr, body, id, q) ==
    /\ req[r].pc = "idle"
    /\ req' = [req EXCEPT ![r] = [Idle EXCEPT !.pc = "chain", !.route = route,
                                  !.hdr = hdr, !.body = body, !.id = id, !.q = q,
                                  !.idx = 1]]

\* the connection is reused for the next request
Close(r) ==
    /\ req[r].pc \in {"done", "hung"}
    /\ req' = [req EXCEPT ![r] = Idle]
    /\ UNCHANGED <<users, catalog, clock, held>>

(***************************************************************************)
(* Auth Middleware: verifyToken.                                           *)
(***************************************************************************)
VerifyTokenResult(rq, t) ==
    IF ~rq.hdr.present \/ rq.hdr = EmptyHeader
    THEN Respond(rq, 403, "Access Denied", NoOut)
    ELSE IF JwtVerifyFails(SecondPart(rq.hdr), SECRET_KEY, t)
         THEN Respond(rq, 403, "Invalid Token", NoOut)
         ELSE Advance([rq EXCEPT !.user = JwtDecoded(SecondPart(rq.hdr))],
                      "verifyToken")

verifyToken(r) ==
    /\ Stage(r) = "verifyToken"
    /\ req' = [req EXCEPT ![r] = VerifyTokenResult(req[r], Now)]
    /\ UNCHANGED <<users, catalog, clock, held>>

(***************************************************************************)
(* Role Gate: requireAdmin.                                                *)
(***************************************************************************)
\* faulty variant: only the presence of an identity is checked
RequireAdminResult_AnyUser(rq) ==
    IF rq.user = NoUser
    THEN Respond(rq, 403, "Access denied: Admins only", NoOut)
    ELSE Advance(rq, "requireAdmin")

RequireAdminResult(rq) ==
    IF rq.user = NoUser \/ rq.user.role # Str("admin")
    THEN Respond(rq, 403, "Access denied: Admins only", NoOut)
    ELSE Advance(rq, "requireAdmin")

requireAdmin(r) ==
    /\ Stage(r) = "requireAdmin"
    /\ req' = [req EXCEPT ![r] = RequireAdminResult(req[r])]
    /\ UNCHANGED <<users, catalog, clock, held>>

(***************************************************************************)
(* The store.  A statement either fails (the callback gets err) or is      *)
(* executed atomically.  An INSERT takes an unused auto-increment id.      *)
(***************************************************************************)
Stmt(op, table, params) == [op |-> op, table |-> table, params |-> params]

FreeIds(table, ids) == ids \ {row.Id : row \in table}

\* WHERE Id = ?
RowsById(table, id) == {row \in table : row.Id = id}

BookRow(id, p) ==
    [Id |-> id, Title |-> p[1], Type |-> p[2], Price |-> p[3], PubId |-> p[4],
     AuthorId |-> p[5]]

PublisherRow(id, p) == [Id |-> id, PName |-> p[1], City |-> p[2]]

AuthorRow(id, p) ==
    [Id |-> id, FName |-> p[1], LName |-> p[2], Country |-> p[3], City |-> p[4],
     Address |-> p[5]]

\* FROM Book b JOIN Publisher p ON b.PubId = p.Id JOIN Author a ON b.AuthorId = a.Id
BookJoin ==
    {b \in Book : /\ \E p \in Publisher : b.PubId = Num(p.Id)
                  /\ \E a \in Author : b.AuthorId = Num(a.Id)}

\* the schema's constraint, enforced by the store: user.Username is unique
UsernameFree(username) == \A u \in users : u.Username # username

\* the schema's constraints, enforced by the store: a Book row references an
\* existing Publisher and an existing Author
ForeignKeysHold(p) ==
    /\ \E pub \in Publisher : p[4] = Num(pub.Id)
    /\ \E a \in Author : p[5] = Num(a.Id)

PublisherReferenced(id) == \E b \in Book : b.PubId = Num(id)

(***************************************************************************)
(* POST /book (admin).                                                     *)
(***************************************************************************)
\* faulty variant: authorId is not checked
PostBookResult_NoAuthorCheck(rq) ==
    LET title == Field(rq.body, "title")
        type == Field(rq.body, "type")
        price == Field(rq.body, "price")
        pubId == Field(rq.body, "pubId")
        authorId == Field(rq.body, "authorId")
    IN  IF Falsy(title) \/ Falsy(type) \/ Falsy(price) \/ Falsy(pubId)
        THEN Respond(rq, 400, "Missing required fields", NoOut)
        ELSE Issue(rq, Stmt("INSERT", "Book",
                            <<title, type, price, pubId, authorId>>))

PostBookResult(rq) ==
    LET title == Field(rq.body, "title")
        type == Field(rq.body, "type")
        price == Field(rq.body, "price")
        pubId == Field(rq.body, "pubId")
        authorId == Field(rq.body, "authorId")
    IN  IF Falsy(title) \/ Falsy(type) \/ Falsy(price) \/ Falsy(pubId)
           \/ Falsy(authorId)
        THEN Respond(rq, 400, "Missing required fields", NoOut)
        ELSE Issue(rq, Stmt("INSERT", "Book",
                            <<title, type, price, pubId, authorId>>))

PostBook(r) ==
    /\ Stage(r) = "handler" /\ req[r].route = "POST /book"
    /\ req' = [req EXCEPT ![r] = PostBookResult(req[r])]
    /\ UNCHANGED <<users, catalog, clock, held>>

PostBookCallback(r) ==
    /\ req[r].pc = "query" /\ req[r].route = "POST /book"
    /\ \/ /\ req' = [req EXCEPT ![r] =
                        Respond([req[r] EXCEPT !.failed = "store"], 500,
                                "Error adding book", NoOut)]
          /\ UNCHANGED Book
       \/ \E id \in FreeIds(Book, BookIds) :
            /\ ForeignKeysHold(Pending(r).params)
            /\ Book' = Book \cup {BookRow(id, Pending(r).params)}
            /\ req' = [req EXCEPT ![r] =
                          Respond(req[r], 201, "Book added successfully!",
                                  [bookId |-> id])]
    /\ UNCHANGED <<users, Publisher, Author, clock, held>>

(***************************************************************************)
(* DELETE /book/:id (admin).                                               *)
(***************************************************************************)
DeleteBookResult(rq) == Issue(rq, Stmt("DELETE", "Book", <<rq.id>>))

\* faulty variant: DELETE FROM Book, the WHERE clause lost
BookAfterDelete_NoWhere(id) == {}

\* DELETE FROM Book WHERE Id = ?
BookAfterDelete(id) == Book \ RowsById(Book, id)

\* (err, result) => ..., result.affectedRows / this.changes
DeleteReply(rq, affected, what) ==
    IF affected = 0
    THEN Respond(rq, 404, what \o " not found", [affectedRows |-> affected])
    ELSE Respond(rq, 200, what \o " deleted successfully!",
                 [affectedRows |-> affected])

DeleteBook(r) ==
    /\ Stage(r) = "handler" /\ req[r].route = "DELETE /book/:id"
    /\ req' = [req EXCEPT ![r] = DeleteBookResult(req[r])]
    /\ UNCHANGED <<users, catalog, clock, held>>

DeleteBookCallback(r) ==
    /\ req[r].pc = "query" /\ req[r].route = "DELETE /book/:id"
    /\ \/ /\ req' = [req EXCEPT ![r] =
                        Respond([req[r] EXCEPT !.failed = "store"], 500,
                                "Error deleting book", NoOut)]
          /\ UNCHANGED Book
       \/ /\ Book' = BookAfterDelete(Pending(r).params[1])
          /\ req' = [req EXCEPT ![r] =
                        DeleteReply(req[r],
                            Cardinality(RowsById(Book, Pending(r).params[1])),
                            "Book")]
    /\ UNCHANGED <<users, Publisher, Author, clock, held>>

(***************************************************************************)
(* GET /book/:id (public).                                                 *)
(***************************************************************************)
GetBookResult(rq) == Issue(rq, Stmt("SELECT", "Book", <<rq.id>>))

\* (err, result) => ...
GetBookReply(rq, result) ==
    IF result = {}
    THEN Respond(rq, 404, "Book not found", NoOut)
    ELSE Respond(rq, 200, "", [book |-> CHOOSE b \in result : TRUE])

GetBook(r) ==
    /\ Stage(r) = "handler" /\ req[r].route = "GET /book/:id"
    /\ req' = [req EXCEPT ![r] = GetBookResult(req[r])]
    /\ UNCHANGED <<users, catalog, clock, held>>

GetBookCallback(r) ==
    /\ req[r].pc = "query" /\ req[r].route = "GET /book/:id"
    /\ \/ req' = [req EXCEPT ![r] =
                     Respond([req[r] EXCEPT !.failed = "store"], 500,
                             "Error fetching book details", NoOut)]
       \/ req' = [req EXCEPT ![r] =
                     GetBookReply(req[r], RowsById(BookJoin, Pending(r).params[1]))]
    /\ UNCHANGED <<users, catalog, clock, held>>

(***************************************************************************)
(* POST /publisher, DELETE /publisher/:id (admin).                         *)
(***************************************************************************)
PostPublisherResult(rq) ==
    LET PName == Field(rq.body, "PName")
        City == Field(rq.body, "City")
    IN  IF Falsy(PName) \/ Falsy(City)
        THEN Respond(rq, 400, "Missing required fields", NoOut)
        ELSE Issue(rq, Stmt("INSERT", "Publisher", <<PName, City>>))

PostPublisher(r) ==
    /\ Stage(r) = "handler" /\ req[r].route = "POST /publisher"
    /\ req' = [req EXCEPT ![r] = PostPublisherResult(req[r])]
    /\ UNCHANGED <<users, catalog, clock, held>>

PostPublisherCallback(r) ==
    /\ req[r].pc = "query" /\ req[r].route = "POST /publisher"
    /\ \/ /\ req' = [req EXCEPT ![r] =
                        Respond([req[r] EXCEPT !.failed = "store"], 500,
                                "Error adding publisher", NoOut)]
          /\ UNCHANGED Publisher
       \/ \E id \in FreeIds(Publisher, PublisherIds) :
            /\ Publisher' = Publisher \cup {PublisherRow(id, Pending(r).params)}
            /\ req' = [req EXCEPT ![r] =
                          Respond(req[r], 201, "Publisher added successfully!",
                                  [pubId |-> id])]
    /\ UNCHANGED <<users, Book, Author, clock, held>>

DeletePublisherResult(rq) == Issue(rq, Stmt("DELETE", "Publisher", <<rq.id>>))

DeletePublisher(r) ==
    /\ Stage(r) = "handler" /\ req[r].route = "DELETE /publisher/:id"
    /\ req' = [req EXCEPT ![r] = DeletePublisherResult(req[r])]
    /\ UNCHANGED <<users, catalog, clock, held>>

DeletePublisherCallback(r) ==
    /\ req[r].pc = "query" /\ req[r].route = "DELETE /publisher/:id"
    /\ \/ /\ req' = [req EXCEPT ![r] =
                        Respond([req[r] EXCEPT !.failed = "store"], 500,
                                "Error deleting publisher", NoOut)]
          /\ UNCHANGED Publisher
       \/ /\ ~PublisherReferenced(Pending(r).params[1])
          /\ Publisher' = Publisher \ RowsById(Publisher, Pending(r).params[1])
          /\ req' = [req EXCEPT ![r] =
                        DeleteReply(req[r],
                            Cardinality(RowsById(Publisher, Pending(r).params[1])),
                            "Publisher")]
    /\ UNCHANGED <<users, Book, Author, clock, held>>

(***************************************************************************)
(* POST /author (admin).                                                   *)
(***************************************************************************)
PostAuthorResult(rq) ==
    LET FName == Field(rq.body, "FName")
        LName == Field(rq.body, "LName")
        Country == Field(rq.body, "Country")
        City == Field(rq.body, "City")
        Address == Field(rq.body, "Address")
    IN  IF Falsy(FName) \/ Falsy(LName) \/ Falsy(Country) \/ Falsy(City)
           \/ Falsy(Address)
        THEN Respond(rq, 400, "Missing required fields", NoOut)
        ELSE Issue(rq, Stmt("INSERT", "Author",
                            <<FName, LName, Country, City, Address>>))

PostAuthor(r) ==
    /\ Stage(r) = "handler" /\ req[r].route = "POST /author"
    /\ req' = [req EXCEPT ![r] = PostAuthorResult(req[r])]
    /\ UNCHANGED <<users, catalog, clock, held>>

PostAuthorCallback(r) ==
    /\ req[r].pc = "query" /\ req[r].route = "POST /author"
    /\ \/ /\ req' = [req EXCEPT ![r] =
                        Respond([req[r] EXCEPT !.failed = "store"], 500,
                                "Error adding author", NoOut)]
          /\ UNCHANGED Author
       \/ \E id \in FreeIds(Author, AuthorIds) :
            /\ Author' = Author \cup {AuthorRow(id, Pending(r).params)}
            /\ req' = [req EXCEPT ![r] =
                          Respond(req[r], 201, "Author added successfully!",
                                  [authorId |-> id])]
    /\ UNCHANGED <<users, Book, Publisher, clock, held>>

(***************************************************************************)
(* POST /signup.                                                           *)
(***************************************************************************)
SignupResult(rq) ==
    IF Falsy(Field(rq.body, "username")) \/ Falsy(Field(rq.body, "password"))
       \/ Falsy(Field(rq.body, "fName")) \/ Falsy(Field(rq.body, "lName"))
    THEN Respond(rq, 400, "Missing required fields", NoOut)
    ELSE [rq EXCEPT !.pc = "hash"]

Signup(r) ==
    /\ Stage(r) = "handler" /\ req[r].route = "POST /signup"
    /\ req' = [req EXCEPT ![r] = SignupResult(req[r])]
    /\ UNCHANGED <<users, catalog, clock, held>>

\* const userRole = role || 'user'
UserRole(body) == OrElse(Field(body, "role"), Str("user"))

\* after await bcrypt.hash(password, 10): the INSERT INTO user
SignupInsert(rq) ==
    Issue(rq, Stmt("INSERT", "user",
                   <<rq.body.username, BcryptHash(rq.body.password), rq.body.fName,
                     rq.body.lName, UserRole(rq.body)>>))

UserRow(id, p) ==
    [Id |-> id, Username |-> p[1], Password |-> p[2], FName |-> p[3],
     LName |-> p[4], Role |-> p[5]]

\* the await settles: a rejection leaves the async handler without sending a
\* response (Express 4) or reaches the default error handler (Express 5)
SignupHashed(r) ==
    /\ req[r].pc = "hash"
    /\ IF BcryptHashFails(req[r].body.password)
       THEN \/ req' = [req EXCEPT ![r].pc = "hung", ![r].failed = "hash"]
            \/ req' = [req EXCEPT ![r] =
                          Respond([req[r] EXCEPT !.failed = "hash"], 500,
                                  "Internal Server Error", NoOut)]
       ELSE req' = [req EXCEPT ![r] = SignupInsert(req[r])]
    /\ UNCHANGED <<users, catalog, clock, held>>

SignupCallback(r) ==
    /\ req[r].pc = "query" /\ req[r].route = "POST /signup"
    /\ \/ /\ req' = [req EXCEPT ![r] =
                        Respond([req[r] EXCEPT !.failed = "store"], 500,
                                "Error creating user", NoOut)]
          /\ UNCHANGED users
       \/ \E id \in FreeIds(users, UserIds) :
            /\ UsernameFree(Pending(r).params[1])
            /\ users' = users \cup {UserRow(id, Pending(r).params)}
            /\ req' = [req EXCEPT ![r] =
                          Respond(req[r], 201, "User created successfully!",
                                  [userId |-> id])]
    /\ UNCHANGED <<catalog, clock, held>>

(***************************************************************************)
(* POST /signin.                                                           *)
(***************************************************************************)
SigninResult(rq) ==
    IF Falsy(Field(rq.body, "username")) \/ Falsy(Field(rq.body, "password"))
    THEN Respond(rq, 400, "Missing username or password", NoOut)
    ELSE Issue(rq, Stmt("SELECT", "user", <<rq.body.username>>))

Signin(r) ==
    /\ Stage(r) = "handler" /\ req[r].route = "POST /signin"
    /\ req' = [req EXCEPT ![r] = SigninResult(req[r])]
    /\ UNCHANGED <<users, catalog, clock, held>>

\* SELECT * FROM user WHERE Username = ?
UsersByName(username) == {u \in users : u.Username = username}

\* (err, results) => ...: results[0] goes on to bcrypt.compare
SigninSelected(rq, results) ==
    IF results = {}
    THEN Respond(rq, 401, "Invalid username or password", NoOut)
    ELSE [rq EXCEPT !.pc = "compare", !.row = CHOOSE u \in results : TRUE]

SigninCallback(r) ==
    /\ req[r].pc = "query" /\ req[r].route = "POST /signin"
    /\ \/ req' = [req EXCEPT ![r] =
                     Respond([req[r] EXCEPT !.failed = "store"], 500,
                             "Internal server error", NoOut)]
       \/ req' = [req EXCEPT ![r] =
                     SigninSelected(req[r], UsersByName(Pending(r).params[1]))]
    /\ UNCHANGED <<users, catalog, clock, held>>

\* faulty variant: the token always carries the default role
SigninToken_DefaultRole(user, t) ==
    JwtSign([userId |-> user.Id, username |-> user.Username, role |-> Str("user")],
            SECRET_KEY, t)

\* jwt.sign({ userId, username, role: user.Role || 'user' }, SECRET_KEY, ...)
SigninToken(user, t) ==
    JwtSign([userId |-> user.Id, username |-> user.Username,
             role |-> OrElse(user.Role, Str("user"))], SECRET_KEY, t)

\* faulty variant: the isMatch test is lost
SigninCompared_NoMatchTest(rq, t) ==
    IF BcryptCompareFails(rq.body.password, rq.row.Password)
    THEN Respond([rq EXCEPT !.failed = "compare"], 500, "Authentication failed",
                 NoOut)
    ELSE Respond(rq, 200, "Login successful",
                 [token |-> SigninToken(rq.row, t),
                  role |-> OrElse(rq.row.Role, Str("user"))])

\* (err, isMatch) => ...
SigninCompared(rq, t) ==
    IF BcryptCompareFails(rq.body.password, rq.row.Password)
    THEN Respond([rq EXCEPT !.failed = "compare"], 500, "Authentication failed",
                 NoOut)
    ELSE IF ~BcryptCompare(rq.body.password, rq.row.Password)
         THEN Respond(rq, 401, "Invalid username or password", NoOut)
         ELSE Respond(rq, 200, "Login successful",
                      [token |-> SigninToken(rq.row, t),
                       role |-> OrElse(rq.row.Role, Str("user"))])

\* the client keeps the token of a successful login
SigninCompare(r) ==
    /\ req[r].pc = "compare"
    /\ req' = [req EXCEPT ![r] = SigninCompared(req[r], Now)]
    /\ held' = IF req'[r].status = 200
               THEN [tok |-> req'[r].out.token, at |-> Now]
               ELSE held
    /\ UNCHANGED <<users, catalog, clock>>

(***************************************************************************)
(* GET /dashboard (token).                                                 *)
(***************************************************************************)
DashboardResult(rq) == Respond(rq, 200, "Welcome", [username |-> rq.user.username])

Dashboard(r) ==
    /\ Stage(r) = "handler" /\ req[r].route = "GET /dashboard"
    /\ req' = [req EXCEPT ![r] = DashboardResult(req[r])]
    /\ UNCHANGED <<users, catalog, clock, held>>

(***************************************************************************)
(* GET /books/search, GET /publishers/search, GET /authors/search.         *)
(***************************************************************************)
Whitespace == {" ", "\t"}

RECURSIVE TrimStart(_)
TrimStart(s) ==
    IF s # <<>> /\ Head(s) \in Whitespace THEN TrimStart(Tail(s)) ELSE s

RECURSIVE TrimEnd(_)
TrimEnd(s) ==
    IF s # <<>> /\ s[Len(s)] \in Whitespace
    THEN TrimEnd(SubSeq(s, 1, Len(s) - 1)) ELSE s

\* q.trim()
Trim(s) == TrimEnd(TrimStart(s))

\* `%${q}%`
SearchTerm(q) == <<"%">> \o q.chars \o <<"%">>

\* column LIKE pattern
RECURSIVE Like(_, _)
Like(s, pat) ==
    IF pat = <<>> THEN s = <<>>
    ELSE IF Head(pat) = "%"
         THEN Like(s, Tail(pat)) \/ (s # <<>> /\ Like(Tail(s), pat))
         ELSE /\ s # <<>>
              /\ Head(pat) = "_" \/ Head(pat) = Head(s)
              /\ Like(Tail(s), Tail(pat))

\* the part of the three search handlers before the query; q.trim() throws when
\* q is not a string and Express answers 500 for the handler
SearchResult(rq, table, params) ==
    IF Falsy(rq.q)
    THEN Respond(rq, 400, "Search query is required", NoOut)
    ELSE IF rq.q.t # "string"
         THEN Respond([rq EXCEPT !.failed = "throw"], 500,
                      "TypeError: q.trim is not a function", NoOut)
         ELSE IF Trim(rq.q.chars) = <<>>
              THEN Respond(rq, 400, "Search query is required", NoOut)
              ELSE Issue(rq, Stmt("SELECT", table,
                                  [i \in 1..params |-> SearchTerm(rq.q)]))

\* (err, results) => ...
SearchReply(rq, results, none) ==
    IF results = {}
    THEN Respond(rq, 404, none, NoOut)
    ELSE Respond(rq, 200, "", [rows |-> results])

\* the step that answers a search: the query fails or returns its rows
SearchCallback(r, route, error, results, none) ==
    /\ req[r].pc = "query" /\ req[r].route = route
    /\ \/ req' = [req EXCEPT ![r] =
                     Respond([req[r] EXCEPT !.failed = "store"], 500, error, NoOut)]
       \/ req' = [req EXCEPT ![r] = SearchReply(req[r], results, none)]
    /\ UNCHANGED <<users, catalog, clock, held>>

SearchBooks(r) ==
    /\ Stage(r) = "handler" /\ req[r].route = "GET /books/search"
    /\ req' = [req EXCEPT ![r] = SearchResult(req[r], "Book", 1)]
    /\ UNCHANGED <<users, catalog, clock, held>>

\* WHERE b.Title LIKE ?
BooksLike(pat) == {b \in BookJoin : Like(b.Title.chars, pat)}

SearchBooksCallback(r) ==
    SearchCallback(r, "GET /books/search", "Search failed",
                   BooksLike(Pending(r).params[1]), "No books found")

SearchPublishers(r) ==
    /\ Stage(r) = "handler" /\ req[r].route = "GET /publishers/search"
    /\ req' = [req EXCEPT ![r] = SearchResult(req[r], "Publisher", 1)]
    /\ UNCHANGED <<users, catalog, clock, held>>

\* WHERE PName LIKE ?
PublishersLike(pat) == {p \in Publisher : Like(p.PName.chars, pat)}

SearchPublishersCallback(r) ==
    SearchCallback(r, "GET /publishers/search", "Publisher search failed",
                   PublishersLike(Pending(r).params[1]), "No publishers found")

SearchAuthors(r) ==
    /\ Stage(r) = "handler" /\ req[r].route = "GET /authors/search"
    /\ req' = [req EXCEPT ![r] = SearchResult(req[r], "Author", 2)]
    /\ UNCHANGED <<users, catalog, clock, held>>

\* WHERE FName LIKE ? OR LName LIKE ?
AuthorsLike(pat1, pat2) ==
    {a \in Author : Like(a.FName.chars, pat1) \/ Like(a.LName.chars, pat2)}

SearchAuthorsCallback(r) ==
    SearchCallback(r, "GET /authors/search", "Author search failed",
                   AuthorsLike(Pending(r).params[1], Pending(r).params[2]),
                   "No authors found")

(***************************************************************************)
(* Time passes: by one tick, or by a coarse jump.                          *)
(***************************************************************************)
Minute == 60 * TicksPerSec

CoarseSteps == {59 * Minute, 60 * Minute - TicksPerSec, 61 * Minute}

TickFine ==
    /\ clock.fine < MaxFine
    /\ clock' = [clock EXCEPT !.fine = clock.fine + 1]
    /\ UNCHANGED <<users, catalog, held, req>>

TickCoarse ==
    /\ clock.jumps < MaxJumps
    /\ \E d \in CoarseSteps :
         clock' = [clock EXCEPT !.base = clock.base + d, !.jumps = clock.jumps + 1]
    /\ UNCHANGED <<users, catalog, held, req>>

(***************************************************************************)
(* Initial state: the server has started, the tables are empty, no request *)
(* is in flight.                                                           *)
(***************************************************************************)
Init ==
    /\ users = {}
    /\ Book = {}
    /\ Publisher = {}
    /\ Author = {}
    /\ clock = [base |-> 0, jumps |-> 0, fine |-> 0]
    /\ held = NoToken
    /\ req = [r \in Conn |-> Idle]

(***************************************************************************)
(* Requests the clients of the catalog send.  A client may hold a token    *)
(* signed by this server for any role, one that has expired, or one signed *)
(* with another key.                                                       *)
(***************************************************************************)
Identity(role) == [userId |-> 1, username |-> Str("a"), role |-> Str(role)]

ValidToken(role) == JwtSign(Identity(role), SECRET_KEY, Now)
ExpiredToken(role) == JwtSign(Identity(role), SECRET_KEY, Now - ExpiresIn * TicksPerSec)
ForgedToken(role) == JwtSign(Identity(role), "other key", Now)

CatalogHeaders ==
    {NoHeader, Bearer(ValidToken("admin")), Bearer(ValidToken("user")),
     Bearer(ExpiredToken("admin")), Bearer(ForgedToken("admin"))}

FullBook ==
    [title |-> Chars(<<"d", "u">>), type |-> Str("novel"), price |-> Num(9),
     pubId |-> Num(1), authorId |-> Num(1)]

FullPublisher == [PName |-> Chars(<<"a", "c">>), City |-> Str("NYC")]

FullAuthor ==
    [FName |-> Chars(<<"f", "r">>), LName |-> Chars(<<"h", "e">>), Country |-> Str("US"),
     City |-> Str("Tacoma"), Address |-> Str("1 Main St")]

\* the body without field f
Without(body, f) == [g \in DOMAIN body \ {f} |-> body[g]]

SendCatalog(r) ==
    /\ \/ \E hdr \in CatalogHeaders :
            \/ Send(r, "POST /book", hdr, FullBook, 0, NoQuery)
            \/ \E id \in BookIds :
                 Send(r, "DELETE /book/:id", hdr, NoBody, id, NoQuery)
            \/ Send(r, "POST /publisher", hdr, FullPublisher, 0, NoQuery)
            \/ \E id \in PublisherIds :
                 Send(r, "DELETE /publisher/:id", hdr, NoBody, id, NoQuery)
            \/ Send(r, "POST /author", hdr, FullAuthor, 0, NoQuery)
       \/ \E id \in BookIds : Send(r, "GET /book/:id", NoHeader, NoBody, id, NoQuery)
    /\ UNCHANGED <<users, catalog, clock, held>>

Next ==
    \E r \in Conn :
        \/ SendCatalog(r)
        \/ verifyToken(r)
        \/ requireAdmin(r)
        \/ PostBook(r) \/ PostBookCallback(r)
        \/ DeleteBook(r) \/ DeleteBookCallback(r)
        \/ GetBook(r) \/ GetBookCallback(r)
        \/ PostPublisher(r) \/ PostPublisherCallback(r)
        \/ DeletePublisher(r) \/ DeletePublisherCallback(r)
        \/ PostAuthor(r) \/ PostAuthorCallback(r)
        \/ Close(r)

Spec == Init /\ [][Next]_vars

(***************************************************************************)
(* Properties of the catalog routes, checked under Spec.                   *)
(***************************************************************************)
Done(r) == req[r].pc = "done"

\* the request carries "<scheme> <token>" with a token this server signed,
\* not yet expired, for a role satisfying isAdmin
CarriesToken(rq, isAdmin) ==
    /\ rq.hdr.present
    /\ Len(rq.hdr.parts) = 2
    /\ rq.hdr.parts[2].kind = "jwt"
    /\ rq.hdr.parts[2].key = SECRET_KEY
    /\ rq.hdr.parts[2].exp > Secs(Now)
    /\ (rq.hdr.parts[2].role = Str("admin")) = isAdmin

PostRoutes == {"POST /book", "POST /publisher", "POST /author"}

\* C1 as stated: on every admin-only route a valid non-admin token is answered
\* 403 and a valid admin token with a valid body is answered 201 (the store
\* executing the statement).
C1_AdminRoutesAnswer201 ==
    \A r \in Conn :
        (Done(r) /\ req[r].route \in AdminRoutes /\ req[r].failed = "none") =>
            /\ CarriesToken(req[r], FALSE) => req[r].status = 403
            /\ CarriesToken(req[r], TRUE) => req[r].status = 201

\* C1 amended: on every admin-only route a valid non-admin token is answered
\* 403 "Access denied: Admins only" without any statement being held; a valid
\* admin token with a valid body is answered 201 on the three POST routes when
\* the store accepts the INSERT, 200 on the two DELETE routes when a row was
\* deleted and 404 when none matched, and 500 when the store fails.
C1_AdminRoutesAnswer ==
    \A r \in Conn :
        (Done(r) /\ req[r].route \in AdminRoutes) =>
            /\ CarriesToken(req[r], FALSE) =>
                 /\ req[r].status = 403
                 /\ req[r].msg = "Access denied: Admins only"
                 /\ req[r].stmts = <<>>
            /\ CarriesToken(req[r], TRUE) =>
                 /\ Len(req[r].stmts) = 1
                 /\ req[r].status =
                      IF req[r].failed = "store" THEN 500
                      ELSE IF req[r].route \in PostRoutes THEN 201
                      ELSE IF req[r].out.affectedRows > 0 THEN 200 ELSE 404

C1_Witness ==
    \E r1, r2 \in Conn :
        /\ Done(r1) /\ req[r1].route = "POST /author"
        /\ CarriesToken(req[r1], FALSE) /\ req[r1].status = 403
        /\ Done(r2) /\ req[r2].route = "POST /author"
        /\ CarriesToken(req[r2], TRUE) /\ req[r2].status = 201

CatalogWrite(stmt) ==
    stmt.op \in {"INSERT", "DELETE"} /\ stmt.table \in {"Book", "Publisher", "Author"}

\* the request passed the Auth Middleware and then the Role Gate, and the
\* identity attached to it is the payload of a token this server signed for an
\* admin
PassedAsAdmin(rq) ==
    /\ rq.passed = <<"verifyToken", "requireAdmin">>
    /\ CarriesToken(rq, TRUE)
    /\ rq.user = JwtDecoded(rq.hdr.parts[2])
    /\ rq.user.role = Str("admin")

\* C2: an INSERT or DELETE on Book, Publisher or Author is held only by a
\* request that passed verifyToken and then requireAdmin with an admin identity;
\* requireAdmin never runs on a request verifyToken has not passed; and the
\* catalog tables change only when the statement of such a request executes.
C2_OnlyAdminsWrite ==
    [][ /\ \A r \in Conn :
             (/\ Len(req'[r].stmts) = Len(req[r].stmts) + 1
              /\ CatalogWrite(req'[r].stmts[Len(req'[r].stmts)]))
                 => PassedAsAdmin(req'[r])
        /\ \A r \in Conn :
             Stage(r) = "requireAdmin" => req[r].passed = <<"verifyToken">>
        /\ (catalog' # catalog) =>
             \E r \in Conn :
                 /\ req[r].pc = "query" /\ req'[r].pc = "done"
                 /\ CatalogWrite(Pending(r))
                 /\ PassedAsAdmin(req[r]) ]_vars

C2_Witness ==
    \E r1, r2 \in Conn :
        /\ req[r1].pc = "query" /\ Pending(r1) = Stmt("DELETE", "Book", <<1>>)
        /\ PassedAsAdmin(req[r1])
        /\ Done(r2) /\ req[r2].route = "DELETE /book/:id" /\ req[r2].status = 403
        /\ Book # {}

\* the step in which the store executed the statement of r and r was answered
Answered(r, route) ==
    /\ req[r].pc = "query" /\ req[r].route = route
    /\ req'[r].pc = "done" /\ req'[r].failed = "none"

\* C8: DELETE /book/:id by an admin on an id with no Book row is answered 404
\* and leaves Book unchanged; on an existing id it is answered 200 and removes
\* exactly that row; a Book row appears only by an accepted POST /book; and
\* GET /book/:id is answered 404 whenever Book has no row with that id (the
\* store executing the statements).
C8_DeleteThenNotFound ==
    [][ /\ \A r \in Conn :
             Answered(r, "DELETE /book/:id") =>
                 /\ PassedAsAdmin(req[r])
                 /\ IF RowsById(Book, req[r].id) = {}
                    THEN req'[r].status = 404 /\ Book' = Book
                    ELSE /\ req'[r].status = 200
                         /\ Book \ Book' = RowsById(Book, req[r].id)
                         /\ Book' \subseteq Book
                         /\ RowsById(Book', req[r].id) = {}
        /\ \A r \in Conn :
             (Answered(r, "GET /book/:id") /\ RowsById(Book, req[r].id) = {})
                 => req'[r].status = 404
        /\ (~(Book' \subseteq Book)) =>
             \E r \in Conn : Answered(r, "POST /book") /\ req'[r].status = 201
      ]_vars

C8_Witness ==
    \E r1, r2 \in Conn :
        /\ Done(r1) /\ req[r1].route = "DELETE /book/:id" /\ req[r1].status = 200
        /\ Done(r2) /\ req[r2].route = "GET /book/:id" /\ req[r2].status = 404
        /\ req[r1].id = req[r2].id
        /\ RowsById(Book, req[r1].id) = {} /\ Book # {}
        /\ Publisher # {} /\ Author # {}

(***************************************************************************)
(* SpecAccounts: clients sign up and sign in.                              *)
(***************************************************************************)
Usernames == {Str("a"), Str("b")}
Passwords == {Str("p"), Str("q"), Num(7)}
Roles == {Undefined, Str(""), Str("admin"), Str("guest")}

SignupBody(u, p, role) ==
    IF role = Undefined
    THEN [username |-> u, password |-> p, fName |-> Str("F"), lName |-> Str("L")]
    ELSE [username |-> u, password |-> p, fName |-> Str("F"), lName |-> Str("L"),
          role |-> role]

SigninBody(u, p) == [username |-> u, password |-> p]

SendAccounts(r) ==
    /\ \/ \E u \in Usernames, p \in Passwords, role \in Roles :
            Send(r, "POST /signup", NoHeader, SignupBody(u, p, role), 0, NoQuery)
       \/ Send(r, "POST /signup", NoHeader,
               Without(SignupBody(Str("a"), Str("p"), Undefined), "lName"), 0, NoQuery)
       \/ \E u \in Usernames, p \in Passwords :
            Send(r, "POST /signin", NoHeader, SigninBody(u, p), 0, NoQuery)
       \/ Send(r, "POST /signin", NoHeader,
               SigninBody(Str("a"), Str("")), 0, NoQuery)
    /\ UNCHANGED <<users, catalog, clock, held>>

NextAccounts ==
    \E r \in Serial :
        \/ SendAccounts(r)
        \/ Signup(r) \/ SignupHashed(r) \/ SignupCallback(r)
        \/ Signin(r) \/ SigninCallback(r) \/ SigninCompare(r)
        \/ Close(r)

SpecAccounts == Init /\ [][NextAccounts]_vars

(***************************************************************************)
(* Properties of signup and signin, checked under SpecAccounts.            *)
(***************************************************************************)
\* row u was created by a signup with the username and password of body
CredentialsOf(u, body) ==
    /\ u.Username = body.username
    /\ IsString(body.password)
    /\ u.Password.of = body.password.v

\* the step in which a signin was answered without the store or bcrypt failing
SigninAnswered(r) ==
    /\ req[r].route = "POST /signin" /\ req[r].pc \in {"query", "compare"}
    /\ req'[r].pc = "done" /\ req'[r].failed = "none"

WrongCredentials(rq) ==
    /\ ~Falsy(Field(rq.body, "username")) /\ ~Falsy(Field(rq.body, "password"))
    /\ \A u \in users : ~CredentialsOf(u, rq.body)

\* C6 as stated: a signin with a non-empty wrong password for an existing
\* username, or for a username that does not exist, is answered 401 "Invalid
\* username or password" without a token, and 500 only when the store query
\* fails.
C6_WrongPassword401 ==
    \A r \in Conn :
        (Done(r) /\ req[r].route = "POST /signin" /\ WrongCredentials(req[r])) =>
            /\ req[r].out = NoOut
            /\ IF req[r].failed = "store"
               THEN req[r].status = 500
               ELSE /\ req[r].status = 401
                    /\ req[r].msg = "Invalid username or password"

\* C6 amended: such a signin is answered 401 "Invalid username or password"
\* without a token, unless the store query fails (500 "Internal server error")
\* or bcrypt.compare itself reports an error, as it does for a password that is
\* not a string, sent for an existing username (500 "Authentication failed").
C6_WrongPassword ==
    \A r \in Conn :
        (Done(r) /\ req[r].route = "POST /signin" /\ WrongCredentials(req[r])) =>
            /\ req[r].out = NoOut
            /\ CASE req[r].failed = "store" ->
                      req[r].status = 500 /\ req[r].msg = "Internal server error"
                 [] req[r].failed = "compare" ->
                      /\ req[r].status = 500
                      /\ req[r].msg = "Authentication failed"
                      /\ ~IsString(req[r].body.password)
                      /\ UsersByName(req[r].body.username) # {}
                 [] OTHER ->
                      /\ req[r].status = 401
                      /\ req[r].msg = "Invalid username or password"
                      /\ (IsString(req[r].body.password)
                          \/ UsersByName(req[r].body.username) = {})

C6_Witness ==
    \E r \in Conn :
        /\ Done(r) /\ req[r].route = "POST /signin" /\ req[r].status = 401
        /\ req[r].failed = "none"
        /\ IsString(req[r].body.password)
        /\ \E u \in users : /\ u.Username = req[r].body.username
                            /\ u.Password.of # req[r].body.password.v

\* C7: every user row has role "user" or "admin", "user" when the signup body
\* omitted the role or gave a falsy one, and every token a client holds carries
\* one of those two roles.
C7_RoleIsUserOrAdmin ==
    /\ \A u \in users : u.Role \in {Str("user"), Str("admin")}
    /\ \A r \in Conn :
         (req[r].route = "POST /signup" /\ req[r].pc = "query"
          /\ Falsy(Field(req[r].body, "role")))
             => Pending(r).params[5] = Str("user")
    /\ held.tok # NoUser => held.tok.role \in {Str("user"), Str("admin")}

(***************************************************************************)
(* SpecSession: a client signs up, signs in and presents the token it      *)
(* holds, well or badly formed, while time passes.                         *)
(***************************************************************************)
Forged(tok) == [tok EXCEPT !.key = "other key"]

SessionHeaders ==
    {NoHeader, EmptyHeader, Header(<<Text("Bearer")>>), Bearer(Text("abc"))}
    \cup (IF held.tok = NoUser THEN {}
          ELSE {Bearer(held.tok), Header(<<held.tok>>), Bearer(Forged(held.tok)),
                Header(<<Text("Bearer"), held.tok, Text("x")>>)})

SendSession(r) ==
    /\ \/ Send(r, "POST /signup", NoHeader,
               SignupBody(Str("a"), Str("p"), Undefined), 0, NoQuery)
       \/ Send(r, "POST /signin", NoHeader, SigninBody(Str("a"), Str("p")), 0, NoQuery)
       \/ \E hdr \in SessionHeaders :
            Send(r, "GET /dashboard", hdr, NoBody, 0, NoQuery)
    /\ UNCHANGED <<users, catalog, clock, held>>

NextSession ==
    \/ \E r \in Serial :
        \/ SendSession(r)
        \/ verifyToken(r)
        \/ Signup(r) \/ SignupHashed(r) \/ SignupCallback(r)
        \/ Signin(r) \/ SigninCallback(r) \/ SigninCompare(r)
        \/ Dashboard(r)
        \/ Close(r)
    \/ TickFine
    \/ TickCoarse

SpecSession == Init /\ [][NextSession]_vars

(***************************************************************************)
(* Properties of the Auth Middleware, checked under SpecSession.           *)
(***************************************************************************)
\* the step in which verifyToken handles the request of r
Verifies(r) == Stage(r) = "verifyToken" /\ req'[r] # req[r]

\* the second space-delimited part of the header is a token this server signed
\* that has not expired at time t
GoodToken(hdr, t) ==
    /\ Len(hdr.parts) >= 2
    /\ hdr.parts[2].kind = "jwt"
    /\ hdr.parts[2].key = SECRET_KEY
    /\ Secs(t) < hdr.parts[2].exp

\* r is answered 403 with message m; next is not called, no identity attached
Rejects(r, m) ==
    /\ req'[r].pc = "done" /\ req'[r].status = 403 /\ req'[r].msg = m
    /\ req'[r].sent = 1
    /\ req'[r].user = NoUser
    /\ req'[r].idx = req[r].idx /\ req'[r].passed = req[r].passed

\* the decoded identity is attached and next is called once
Accepts(r) ==
    /\ req'[r].pc = "chain" /\ req'[r].sent = 0
    /\ req'[r].user = JwtDecoded(req[r].hdr.parts[2])
    /\ req'[r].idx = req[r].idx + 1
    /\ req'[r].passed = Append(req[r].passed, "verifyToken")

\* C3 as stated: header absent: 403 "Access Denied"; header present and the
\* verification failing for any reason, a missing second part included: 403
\* "Invalid Token"; verification succeeding: identity attached, next called
\* once; a rejected request gets no identity and no next.
C3_AuthOutcomesByPresence ==
    [][ \A r \in Conn :
          Verifies(r) =>
              IF ~req[r].hdr.present THEN Rejects(r, "Access Denied")
              ELSE IF ~GoodToken(req[r].hdr, Now) THEN Rejects(r, "Invalid Token")
              ELSE Accepts(r) ]_vars

\* C3 amended: header absent or empty: 403 "Access Denied"; header non-empty
\* and the verification failing for any reason (bad signature, malformed,
\* expired, no second space-delimited part): 403 "Invalid Token"; verification
\* succeeding: identity attached, next called once; a rejected request gets no
\* identity and no next.
C3_AuthOutcomes ==
    [][ \A r \in Conn :
          Verifies(r) =>
              IF ~req[r].hdr.present \/ req[r].hdr.parts = <<Text("")>>
              THEN Rejects(r, "Access Denied")
              ELSE IF ~GoodToken(req[r].hdr, Now) THEN Rejects(r, "Invalid Token")
              ELSE Accepts(r) ]_vars

C3_Witness ==
    \E r \in Conn :
        /\ Done(r) /\ req[r].route = "GET /dashboard"
        /\ req[r].hdr = EmptyHeader /\ held.tok # NoUser
        /\ req[r].status = 403 /\ req[r].msg = "Access Denied"
        /\ req[r].user = NoUser /\ req[r].passed = <<>>

Hour == ExpiresIn * TicksPerSec

\* the step in which verifyToken handles a request carrying the token that
\* signin issued at time held.at
VerifiesHeld(r) ==
    Verifies(r) /\ held.tok # NoUser /\ req[r].hdr = Bearer(held.tok)

\* C4 as stated: a token issued by signin at time T is accepted at every time
\* before T + 1 hour and rejected with 403 "Invalid Token" at every time after
\* T + 1 hour.
C4_AcceptedWithinTheHour ==
    [][ \A r \in Conn :
          VerifiesHeld(r) =>
              /\ Now < held.at + Hour => Accepts(r)
              /\ Now > held.at + Hour => Rejects(r, "Invalid Token") ]_vars

\* C4 amended: a token issued by signin at time T is accepted exactly while
\* the clock's whole second is less than the whole second of T plus 3600: at
\* every time up to T + 1 hour - 1 second it is accepted, at every time from
\* T + 1 hour on it is rejected with 403 "Invalid Token", and nothing but the
\* signature and these two clock readings decides.
C4_AcceptedUntilExpiry ==
    [][ \A r \in Conn :
          VerifiesHeld(r) =>
              /\ IF Secs(Now) < Secs(held.at) + ExpiresIn
                 THEN Accepts(r) ELSE Rejects(r, "Invalid Token")
              /\ Now <= held.at + Hour - TicksPerSec => Accepts(r)
              /\ Now >= held.at + Hour => Rejects(r, "Invalid Token") ]_vars

C4_Witness ==
    \E r \in Conn :
        /\ Done(r) /\ req[r].route = "GET /dashboard"
        /\ held.tok # NoUser /\ req[r].hdr = Bearer(held.tok)
        /\ req[r].status = 403 /\ req[r].msg = "Invalid Token"
        /\ held.at > 0 /\ Now <= held.at + Hour

(***************************************************************************)
(* SpecSearch: the public search routes over a catalog the admin routes    *)
(* can have built.                                                         *)
(***************************************************************************)
SampleBook(id) == BookRow(id, <<FullBook.title, FullBook.type, FullBook.price,
                                 FullBook.pubId, FullBook.authorId>>)

InitSearch ==
    /\ users = {}
    /\ Publisher \in SUBSET {PublisherRow(1, <<FullPublisher.PName, FullPublisher.City>>)}
    /\ Author \in SUBSET {AuthorRow(1, <<FullAuthor.FName, FullAuthor.LName,
                                         FullAuthor.Country, FullAuthor.City,
                                         FullAuthor.Address>>)}
    /\ Book \in SUBSET {SampleBook(id) : id \in BookIds}
    /\ Book # {} => (Publisher # {} /\ Author # {})
    /\ clock = [base |-> 0, jumps |-> 0, fine |-> 0]
    /\ held = NoToken
    /\ req = [r \in Conn |-> Idle]

SearchQueries ==
    {Undefined, Chars(<<>>), Chars(<<" ">>), Chars(<<"\t", " ">>), Chars(<<"d">>),
     Chars(<<"e">>), Chars(<<"u", " ">>), Chars(<<"z">>), Arr(<<"d", "u">>)}

SearchRoutes == {"GET /books/search", "GET /publishers/search", "GET /authors/search"}

SendSearch(r) ==
    /\ \E route \in SearchRoutes, q \in SearchQueries :
         Send(r, route, NoHeader, NoBody, 0, q)
    /\ UNCHANGED <<users, catalog, clock, held>>

NextSearch ==
    \E r \in Conn :
        \/ SendSearch(r)
        \/ SearchBooks(r) \/ SearchBooksCallback(r)
        \/ SearchPublishers(r) \/ SearchPublishersCallback(r)
        \/ SearchAuthors(r) \/ SearchAuthorsCallback(r)
        \/ Close(r)

SpecSearch == InitSearch /\ [][NextSearch]_vars

\* q is absent, empty, or only whitespace
Blank(q) ==
    \/ q = Undefined
    \/ q.t = "string" /\ \A i \in 1..Len(q.chars) : q.chars[i] \in Whitespace

\* C9: each search route answers 400 "Search query is required" without a
\* statement when q is absent, empty or only whitespace; for any other q it
\* issues exactly one query with the pattern %q% and answers 404 when no row
\* matches and 200 with the rows otherwise (the store executing the query).
C9_SearchValidation ==
    \A r \in Conn :
        (Done(r) /\ req[r].route \in SearchRoutes) =>
            IF Blank(req[r].q)
            THEN /\ req[r].status = 400 /\ req[r].msg = "Search query is required"
                 /\ req[r].stmts = <<>>
            ELSE /\ Len(req[r].stmts) = 1
                 /\ \A i \in DOMAIN req[r].stmts[1].params :
                      req[r].stmts[1].params[i] = <<"%">> \o req[r].q.chars \o <<"%">>
                 /\ req[r].failed = "none" =>
                      \/ req[r].status = 404 /\ req[r].out = NoOut
                      \/ req[r].status = 200 /\ req[r].out.rows # {}

(***************************************************************************)
(* SpecBook: an admin fills the catalog, sending POST /book with complete  *)
(* and incomplete bodies.                                                  *)
(***************************************************************************)
BookFields == {"title", "type", "price", "pubId", "authorId"}

BookBodies ==
    {FullBook} \cup {Without(FullBook, f) : f \in BookFields}
    \cup {[FullBook EXCEPT !.price = Num(0)], [FullBook EXCEPT !.title = Chars(<<>>)],
          [FullBook EXCEPT !.type = Str("")], Without(Without(FullBook, "type"), "pubId")}

SendBook(r) ==
    /\ \E hdr \in {Bearer(ValidToken("admin")), Bearer(ValidToken("user"))} :
         \/ \E body \in BookBodies : Send(r, "POST /book", hdr, body, 0, NoQuery)
         \/ Send(r, "POST /publisher", hdr, FullPublisher, 0, NoQuery)
         \/ Send(r, "POST /author", hdr, FullAuthor, 0, NoQuery)
    /\ UNCHANGED <<users, catalog, clock, held>>

NextBook ==
    \E r \in Serial :
        \/ SendBook(r)
        \/ verifyToken(r)
        \/ requireAdmin(r)
        \/ PostBook(r) \/ PostBookCallback(r)
        \/ PostPublisher(r) \/ PostPublisherCallback(r)
        \/ PostAuthor(r) \/ PostAuthorCallback(r)
        \/ Close(r)

SpecBook == Init /\ [][NextBook]_vars

\* POST /book requests an admin sent
AdminPostBook(r) ==
    Done(r) /\ req[r].route = "POST /book" /\ CarriesToken(req[r], TRUE)

\* C10 as stated: POST /book by an admin is answered 400 "Missing required
\* fields" if and only if one of title, type, price, pubId, authorId is missing
\* from the body, and then issues no INSERT; with all five supplied it issues
\* exactly one INSERT and is answered 201 with the bookId, or 500 when the store
\* rejects it.
C10_MissingFields400 ==
    \A r \in Conn :
        AdminPostBook(r) =>
            IF \E f \in BookFields : f \notin DOMAIN req[r].body
            THEN /\ req[r].status = 400 /\ req[r].msg = "Missing required fields"
                 /\ req[r].stmts = <<>>
            ELSE /\ Len(req[r].stmts) = 1 /\ req[r].stmts[1].op = "INSERT"
                 /\ IF req[r].failed = "store" THEN req[r].status = 500
                    ELSE req[r].status = 201 /\ req[r].out.bookId \in BookIds

\* the body gives f a value other than "", 0
Supplied(body, f) ==
    /\ f \in DOMAIN body
    /\ body[f] \notin {Str(""), Chars(<<>>), Num(0)}

\* C10 amended: POST /book by an admin is answered 400 "Missing required
\* fields" if and only if one of title, type, price, pubId, authorId is missing
\* from the body or falsy (an empty string, 0), and then issues no INSERT; with
\* all five supplied and truthy it issues exactly one INSERT and is answered 201
\* with the bookId, or 500 when the store rejects it.
C10_FalsyFields400 ==
    \A r \in Conn :
        AdminPostBook(r) =>
            IF \E f \in BookFields : ~Supplied(req[r].body, f)
            THEN /\ req[r].status = 400 /\ req[r].msg = "Missing required fields"
                 /\ req[r].stmts = <<>>
            ELSE /\ Len(req[r].stmts) = 1 /\ req[r].stmts[1].op = "INSERT"
                 /\ req[r].stmts[1].table = "Book"
                 /\ IF req[r].failed = "store" THEN req[r].status = 500
                    ELSE req[r].status = 201 /\ req[r].out.bookId \in BookIds

C10_Witness ==
    \E r \in Conn :
        /\ AdminPostBook(r) /\ req[r].status = 400
        /\ req[r].body = Without(FullBook, "authorId")
        /\ Publisher # {} /\ Author # {} /\ Book # {}

(***************************************************************************)
(* SpecAccountsFair: SpecAccounts with the event loop running every         *)
(* callback that is ready (a handler, the continuation of an await, the     *)
(* callback of a store statement or of bcrypt.compare).  Clients are under  *)
(* no obligation to send a request or to reuse a connection.                *)
(***************************************************************************)
ServerStepAccounts(r) ==
    \/ Signup(r) \/ SignupHashed(r) \/ SignupCallback(r)
    \/ Signin(r) \/ SigninCallback(r) \/ SigninCompare(r)

SpecAccountsFair ==
    SpecAccounts /\ \A r \in Serial : WF_vars(ServerStepAccounts(r))

\* the request on r has been received and not yet answered
InFlight(r) == req[r].pc \notin {"idle", "done"}

\* C11: every request is eventually answered, with exactly one response: no
\* request is left without a response, none is answered twice, and a failure of
\* the store statement or of the password hashing (the hashing of a signup
\* included) is answered with status 500.
C11_EveryRequestAnsweredOnce ==
    /\ \A r \in Serial : InFlight(r) ~> (req[r].pc = "done" /\ req[r].sent = 1)
    /\ [](\A r \in Serial :
            /\ req[r].pc # "hung"
            /\ req[r].sent <= 1
            /\ (req[r].failed \in {"store", "hash"} => req[r].status = 500))

====
